---- MODULE Spec2Model ----
(***************************************************************************)
(* Model of the average-rating report script (src/main.py):                *)
(*   read_csv_files -> calculate_average_rating -> generate_report,        *)
(* driven by main().                                                       *)
(*                                                                         *)
(* Two specifications share the variables and the operators:               *)
(*   Spec     one whole run of main(), from the command line to the exit;  *)
(*   SpecAgg  calculate_average_rating applied to every record sequence    *)
(*            of a richer record pool.                                     *)
(***************************************************************************)
EXTENDS Integers, Sequences, FiniteSets, TLC

(***************************************************************************)
(* Bounds of the model.                                                    *)
(***************************************************************************)
\* Largest number of paths given to --files.
MaxFiles == 2
\* Largest number of lines after the header lines, over all files of a run.
MaxLines == 3
\* Largest record sequence handed to calculate_average_rating in SpecAgg.
MaxRecords == 3

(***************************************************************************)
(* Values.                                                                 *)
(***************************************************************************)
\* Python's None, as csv.DictReader stores it for a field a short row lacks
\* (restval).  No text of the pools below is equal to it.
None == "<None>"

\* The header row of every input file.
Header == <<"name", "brand", "price", "rating">>

\* Sequences over S of length at most n.
SeqUpTo(S, n) == UNION {[1..k -> S] : k \in 0..n}

Range(s) == {s[i] : i \in 1..Len(s)}

Reverse(s) == [i \in 1..Len(s) |-> s[Len(s) + 1 - i]]

(***************************************************************************)
(* Floating-point values.  A float is a pair <<num, den>>: the rational    *)
(* num/den counted in tenths (<<45, 1>> is 4.5), in lowest terms with      *)
(* den >= 1; <<0, 0>> is NaN.  Every literal of the pools is a multiple of *)
(* 0.5, so the sums are exact in binary floating point and a quotient is   *)
(* the correctly rounded rational: equality and order of the floats are    *)
(* equality and order of the rationals.                                    *)
(***************************************************************************)
NaN == <<0, 0>>

IsNaN(x) == x[2] = 0

RECURSIVE Gcd(_, _)
Gcd(a, b) == IF b = 0 THEN a ELSE Gcd(b, a % b)

\* x + y  (line 68); NaN is absorbing.
FAdd(x, y) ==
    IF IsNaN(x) \/ IsNaN(y) THEN NaN
    ELSE LET n == x[1] * y[2] + y[1] * x[2]
             d == x[2] * y[2]
             g == Gcd(n, d)
         IN  <<n \div g, d \div g>>

\* x / n for an integer n >= 1  (line 72).
FDiv(x, n) ==
    IF IsNaN(x) THEN NaN
    ELSE LET d == x[2] * n
             g == Gcd(x[1], d)
         IN  <<x[1] \div g, d \div g>>

\* x < y on floats: false as soon as one side is NaN.
FLess(x, y) == ~IsNaN(x) /\ ~IsNaN(y) /\ x[1] * y[2] < y[1] * x[2]

\* x >= y on floats: false as soon as one side is NaN.
FGeq(x, y) == ~IsNaN(x) /\ ~IsNaN(y) /\ x[1] * y[2] >= y[1] * x[2]

\* x == y on floats: false as soon as one side is NaN.
FEq(x, y) == ~IsNaN(x) /\ ~IsNaN(y) /\ x[1] * y[2] = y[1] * x[2]

\* The texts of the pools float() accepts, with their values.  float()
\* accepts "nan"; every other text of the pools raises ValueError.
FloatLiterals ==
    ("3.0" :> <<30, 1>>) @@ ("4.0" :> <<40, 1>>) @@ ("4.5" :> <<45, 1>>) @@
    ("5.0" :> <<50, 1>>) @@ ("nan" :> NaN)

\* A float() that reads a text that is no number as 0.0.
ParseFloatInvalidAsZero(s) ==
    IF s = None THEN [exc |-> "TypeError", value |-> NaN]
    ELSE IF s \in DOMAIN FloatLiterals
         THEN [exc |-> "", value |-> FloatLiterals[s]]
         ELSE [exc |-> "", value |-> <<0, 1>>]

\* float(record['rating'])  (line 57): the value, or the exception raised.
\* float(None) raises TypeError, a text that is no number raises ValueError.
ParseFloat(s) ==
    IF s = None THEN [exc |-> "TypeError", value |-> NaN]
    ELSE IF s \in DOMAIN FloatLiterals
         THEN [exc |-> "", value |-> FloatLiterals[s]]
         ELSE [exc |-> "ValueError", value |-> NaN]

(***************************************************************************)
(* Python dicts keep insertion order: a dict is the sequence of its        *)
(* <<key, value>> items in insertion order.                                *)
(***************************************************************************)
DictKeys(d) == [i \in 1..Len(d) |-> d[i][1]]

\* key in d  (line 65): exact string equality.
DictHas(d, k) == \E i \in 1..Len(d) : d[i][1] = k

\* d[key]
DictGet(d, k) == d[CHOOSE i \in 1..Len(d) : d[i][1] = k][2]

\* d[key] = v: a new key goes to the end, an old key keeps its place.
DictSet(d, k, v) ==
    IF \E i \in 1..Len(d) : d[i][1] = k
    THEN [i \in 1..Len(d) |-> IF d[i][1] = k THEN <<k, v>> ELSE d[i]]
    ELSE Append(d, <<k, v>>)

(***************************************************************************)
(* calculate_average_rating                                                *)
(***************************************************************************)
\* The warning printed to stderr for a rating float() rejects (lines 59-63).
Warning(record) ==
    [kind |-> "warning",
     text |-> <<record["rating"], record["name"], record["brand"]>>]

\* str.lower on the brands of the pools.
Lower(s) == IF s = "Apple" THEN "apple" ELSE IF s = "Sony" THEN "sony" ELSE s

\* The loop body with the brand folded to lower case before it is used as key.
LoopBodyLowerCase(acc, record) ==
    LET brand == Lower(record["brand"])
        parsed == ParseFloat(record["rating"])
    IN  IF parsed.exc = "ValueError"
        THEN [acc EXCEPT !.stderr = Append(@, Warning(record))]
        ELSE IF parsed.exc # ""
        THEN [acc EXCEPT !.exc = parsed.exc]
        ELSE LET ratings == IF DictHas(acc.brand_ratings, brand)
                            THEN acc.brand_ratings
                            ELSE DictSet(acc.brand_ratings, brand, <<0, 1>>)
                 counts == IF DictHas(acc.brand_ratings, brand)
                           THEN acc.brand_counts
                           ELSE DictSet(acc.brand_counts, brand, 0)
             IN  [acc EXCEPT
                    !.brand_ratings =
                        DictSet(ratings, brand,
                                FAdd(DictGet(ratings, brand), parsed.value)),
                    !.brand_counts =
                        DictSet(counts, brand, DictGet(counts, brand) + 1)]

\* One iteration of the loop of lines 54-69 on `record`, from the locals
\* `acc`: the two dicts, the lines written to stderr and the exception that
\* left the loop ("" while none did).
LoopBody(acc, record) ==
    LET brand == record["brand"]
        parsed == ParseFloat(record["rating"])
    IN  IF parsed.exc = "ValueError"
        THEN [acc EXCEPT !.stderr = Append(@, Warning(record))]
        ELSE IF parsed.exc # ""
        THEN [acc EXCEPT !.exc = parsed.exc]
        ELSE LET ratings == IF DictHas(acc.brand_ratings, brand)
                            THEN acc.brand_ratings
                            ELSE DictSet(acc.brand_ratings, brand, <<0, 1>>)
                 counts == IF DictHas(acc.brand_ratings, brand)
                           THEN acc.brand_counts
                           ELSE DictSet(acc.brand_counts, brand, 0)
             IN  [acc EXCEPT
                    !.brand_ratings =
                        DictSet(ratings, brand,
                                FAdd(DictGet(ratings, brand), parsed.value)),
                    !.brand_counts =
                        DictSet(counts, brand, DictGet(counts, brand) + 1)]

\* The loop of lines 54-69 from record i on; an exception ends it.
RECURSIVE Loop(_, _, _)
Loop(recs, i, acc) ==
    IF i > Len(recs) \/ acc.exc # "" THEN acc
    ELSE Loop(recs, i + 1, LoopBody(acc, recs[i]))

\* The list comprehension of lines 71-74, in the dict's order.
Averages(brand_ratings, brand_counts) ==
    [i \in 1..Len(brand_ratings) |->
        <<brand_ratings[i][1],
          FDiv(brand_ratings[i][2], DictGet(brand_counts, brand_ratings[i][1]))>>]

(***************************************************************************)
(* list.sort(key=lambda x: x[1], reverse=True)  (line 76), as CPython      *)
(* sorts a short list: the list is reversed, sorted in ascending order by  *)
(* the run detection and the binary insertion sort of listsort, which      *)
(* compare keys with < only, and reversed again.                           *)
(***************************************************************************)
\* key(x) < key(y)
KeyLess(x, y) == FLess(x[2], y[2])

\* count_run: the length of the run a starts with, and whether it is a
\* strictly descending one.
CountRun(a) ==
    LET desc == KeyLess(a[2], a[1])
        goes(j) == IF desc THEN KeyLess(a[j], a[j - 1])
                   ELSE ~KeyLess(a[j], a[j - 1])
        n == CHOOSE k \in 2..Len(a) :
                /\ \A j \in 3..k : goes(j)
                /\ k = Len(a) \/ ~goes(k + 1)
    IN  [n |-> n, descending |-> desc]

\* binarysort's search for the place of pivot in a[l..r-1].
RECURSIVE BinarySearch(_, _, _, _)
BinarySearch(a, pivot, l, r) ==
    IF l >= r THEN l
    ELSE LET p == l + ((r - l) \div 2)
         IN  IF KeyLess(pivot, a[p])
             THEN BinarySearch(a, pivot, l, p)
             ELSE BinarySearch(a, pivot, p + 1, r)

\* a with the element at `start` moved down to `pos`.
MoveTo(a, start, pos) ==
    [i \in 1..Len(a) |->
        IF i < pos \/ i > start THEN a[i]
        ELSE IF i = pos THEN a[start]
        ELSE a[i - 1]]

\* binarysort: a[1..start-1] is sorted; insert the rest one by one.
RECURSIVE BinarySort(_, _)
BinarySort(a, start) ==
    IF start > Len(a) THEN a
    ELSE BinarySort(MoveTo(a, start, BinarySearch(a, a[start], 1, start)),
                    start + 1)

\* listsort, ascending.
ListSort(a) ==
    IF Len(a) < 2 THEN a
    ELSE LET run == CountRun(a)
             b == IF run.descending
                  THEN [i \in 1..Len(a) |->
                          IF i <= run.n THEN a[run.n + 1 - i] ELSE a[i]]
                  ELSE a
         IN  BinarySort(b, run.n + 1)

\* An ascending sort reversed afterwards: descending, equal keys swapped.
SortAscendingThenReverse(a) == Reverse(ListSort(a))

\* list.sort(..., reverse=True)
SortDescending(a) == Reverse(ListSort(Reverse(a)))

\* calculate_average_rating(records) (lines 52-77): the locals when the
\* function is left, with the returned list in `result`.
calculate_average_rating(recs) ==
    LET acc == Loop(recs, 1,
                    [brand_ratings |-> <<>>, brand_counts |-> <<>>,
                     stderr |-> <<>>, exc |-> ""])
    IN  [brand_ratings |-> acc.brand_ratings,
         brand_counts |-> acc.brand_counts,
         stderr |-> acc.stderr,
         exc |-> acc.exc,
         result |-> IF acc.exc # "" THEN <<>>
                    ELSE SortDescending(Averages(acc.brand_ratings,
                                                 acc.brand_counts))]

(***************************************************************************)
(* Input files.  A file on disk is Missing or the sequence of its lines,   *)
(* each line the sequence of its comma-separated fields; <<>> is a blank   *)
(* line and CsvErrorLine a line on which the csv reader raises csv.Error   *)
(* (a field longer than the reader's field size limit).                    *)
(***************************************************************************)
Missing == <<<<"<missing>">>>>

CsvErrorLine == <<"<csv.Error>">>

\* The lines a file of Spec is made of, after its header.
LinePool ==
    { <<>>,
      CsvErrorLine,
      <<"p1", "Apple", "1000", "4.5">>,
      <<"p2", "apple", "900", "invalid">>,
      <<"p3", "Sony", "500">> }

\* The records calculate_average_rating is applied to in SpecAgg.
RecordPool ==
    [name : {"p"}, brand : {"Apple", "apple", "Sony"}, price : {"100"},
     rating : {"3.0", "4.0", "5.0", "nan", "invalid", None}]

\* The number of lines of a file after its first line.
DataLines(f) == IF f = Missing THEN 0 ELSE Len(f) - 1

\* The files with at most n lines after the header: missing, or a header
\* followed by lines of the pool.
FilePool(n) ==
    {Missing} \cup {<<Header>> \o ls : ls \in SeqUpTo(LinePool, n)}

\* The lists of at most k files holding at most n data lines together.
RECURSIVE FileLists(_, _)
FileLists(k, n) ==
    IF k = 0 THEN {<<>>}
    ELSE {<<>>} \cup
         UNION {{<<f>> \o rest : rest \in FileLists(k - 1, n - DataLines(f))} :
                f \in FilePool(n)}

(***************************************************************************)
(* csv.DictReader                                                          *)
(***************************************************************************)
\* The dict DictReader makes of a row: the fields by header name, None
\* (restval) for the fields a short row lacks.
DictRow(fieldnames, row) ==
    [f \in Range(fieldnames) |->
        LET i == CHOOSE j \in 1..Len(fieldnames) : fieldnames[j] = f
        IN  IF i <= Len(row) THEN row[i] ELSE None]

\* The index of the first line of f on which the reader raises csv.Error,
\* Len(f) + 1 when there is none.
FirstCsvError(f) ==
    IF \E i \in 1..Len(f) : f[i] = CsvErrorLine
    THEN CHOOSE i \in 1..Len(f) :
            f[i] = CsvErrorLine /\ \A j \in 1..(i - 1) : f[j] # CsvErrorLine
    ELSE Len(f) + 1

\* The rows `for row in reader` yields from lines i..last of a file whose
\* first line gave the field names: blank lines are skipped.
RECURSIVE ReaderRows(_, _, _)
ReaderRows(f, i, last) ==
    IF i > last THEN <<>>
    ELSE IF f[i] = <<>> THEN ReaderRows(f, i + 1, last)
    ELSE <<DictRow(f[1], f[i])>> \o ReaderRows(f, i + 1, last)

(***************************************************************************)
(* generate_report                                                         *)
(***************************************************************************)
\* f"{avg_rating:.1f}": one fractional digit, round-half-even; "nan" for NaN.
FormatOneDecimal(x) ==
    IF IsNaN(x) THEN "nan"
    ELSE LET q == x[1] \div x[2]
             r == x[1] % x[2]
             t == IF 2 * r < x[2] THEN q
                  ELSE IF 2 * r > x[2] THEN q + 1
                  ELSE IF q % 2 = 0 THEN q ELSE q + 1
         IN  ToString(t \div 10) \o "." \o ToString(t % 10)

\* The rows of table_data in the opposite order.
TableDataReversed(data) ==
    Reverse([i \in 1..Len(data) |-> <<data[i][1], FormatOneDecimal(data[i][2])>>])

\* table_data of line 94.
TableData(data) ==
    [i \in 1..Len(data) |-> <<data[i][1], FormatOneDecimal(data[i][2])>>]

\* tabulate(table_data, headers=headers, tablefmt="grid"): the grid, as its
\* header row and its data rows.
Tabulate(table_data, headers) == [headers |-> headers, rows |-> table_data]

(***************************************************************************)
(* The state of one run of main().                                         *)
(***************************************************************************)
VARIABLES
    pc,               \* where main() is
    files,            \* the files at the paths of --files, in argument order
    report_type,      \* the value of --report
    file_idx,         \* position of file_path in file_paths (line 29)
    open_files,       \* the positions of the paths whose file is open
    all_records,      \* all_records of read_csv_files
    records,          \* records of main(), once read_csv_files returned
    brand_ratings,    \* brand_ratings when calculate_average_rating returns
    brand_counts,     \* brand_counts when calculate_average_rating returns
    average_ratings,  \* average_ratings of main()
    stdout,           \* what was printed to standard output
    stderr,           \* the lines written to standard error
    exit_status       \* <<>> while the process runs, then <<status>>

vars == <<pc, files, report_type, file_idx, open_files, all_records, records,
          brand_ratings, brand_counts, average_ratings, stdout, stderr,
          exit_status>>

ReportTypes == {"average-rating", "invalid"}

Start ==
    /\ file_idx = 1
    /\ open_files = {}
    /\ all_records = <<>>
    /\ brand_ratings = <<>>
    /\ brand_counts = <<>>
    /\ average_ratings = <<>>
    /\ stdout = <<>>
    /\ stderr = <<>>
    /\ exit_status = <<>>

\* main() after parse_args (line 115).
Init ==
    /\ pc = "read"
    /\ files \in FileLists(MaxFiles, MaxLines)
    /\ report_type \in ReportTypes
    /\ records = <<>>
    /\ Start

\* The call of line 121 on any record sequence of the pool.
InitAgg ==
    /\ pc = "aggregate"
    /\ files = <<>>
    /\ report_type = "average-rating"
    /\ records \in SeqUpTo(RecordPool, MaxRecords)
    /\ Start

\* sys.exit(status), or the end of main().
Exit(status) ==
    /\ pc' = "exited"
    /\ exit_status' = <<status>>

\* An open that passes over a missing file and goes on with the next path.
OpenFileSkipMissing ==
    /\ pc = "read"
    /\ file_idx <= Len(files)
    /\ IF files[file_idx] = Missing
       THEN /\ file_idx' = file_idx + 1
            /\ UNCHANGED <<pc, exit_status, open_files, stderr>>
       ELSE /\ open_files' = open_files \cup {file_idx}
            /\ pc' = "reading"
            /\ UNCHANGED <<stderr, exit_status, file_idx>>
    /\ UNCHANGED <<files, report_type, all_records, records,
                   brand_ratings, brand_counts, average_ratings, stdout>>

\* Line 31: open the next file; a missing one is reported and ends the
\* process (lines 35-37).
OpenFile ==
    /\ pc = "read"
    /\ file_idx <= Len(files)
    /\ IF files[file_idx] = Missing
       THEN /\ stderr' = Append(stderr, [kind |-> "file_not_found",
                                         text |-> <<file_idx>>])
            /\ Exit(1)
            /\ UNCHANGED open_files
       ELSE /\ open_files' = open_files \cup {file_idx}
            /\ pc' = "reading"
            /\ UNCHANGED <<stderr, exit_status>>
    /\ UNCHANGED <<files, report_type, file_idx, all_records, records,
                   brand_ratings, brand_counts, average_ratings, stdout>>

\* A read that puts the rows of the open file before those already read.
ReadRowsPrepend ==
    /\ pc = "reading"
    /\ LET f == files[file_idx]
           e == FirstCsvError(f)
       IN  /\ all_records' = ReaderRows(f, 2, e - 1) \o all_records
           /\ pc' = IF e <= Len(f) THEN "csv_error" ELSE "read_done"
    /\ UNCHANGED <<files, report_type, file_idx, open_files, records,
                   brand_ratings, brand_counts, average_ratings, stdout,
                   stderr, exit_status>>

\* Lines 32-34: every row of the open file is appended, up to the line on
\* which the reader raises csv.Error if there is one.
ReadRows ==
    /\ pc = "reading"
    /\ LET f == files[file_idx]
           e == FirstCsvError(f)
       IN  /\ all_records' = all_records \o ReaderRows(f, 2, e - 1)
           /\ pc' = IF e <= Len(f) THEN "csv_error" ELSE "read_done"
    /\ UNCHANGED <<files, report_type, file_idx, open_files, records,
                   brand_ratings, brand_counts, average_ratings, stdout,
                   stderr, exit_status>>

\* A loop step that goes to the next path and leaves the file open.
CloseFileLeak ==
    /\ pc = "read_done"
    /\ file_idx' = file_idx + 1
    /\ pc' = "read"
    /\ UNCHANGED <<files, report_type, open_files, all_records, records,
                   brand_ratings, brand_counts, average_ratings, stdout,
                   stderr, exit_status>>

\* The end of the with block of line 31: the file is closed and the loop
\* of line 29 goes to the next path.
CloseFile ==
    /\ pc = "read_done"
    /\ open_files' = open_files \ {file_idx}
    /\ file_idx' = file_idx + 1
    /\ pc' = "read"
    /\ UNCHANGED <<files, report_type, all_records, records,
                   brand_ratings, brand_counts, average_ratings, stdout,
                   stderr, exit_status>>

\* csv.Error leaves the with block, which closes the file, and is handled
\* by lines 38-40.
CsvErrorExit ==
    /\ pc = "csv_error"
    /\ open_files' = open_files \ {file_idx}
    /\ stderr' = Append(stderr, [kind |-> "csv_error", text |-> <<file_idx>>])
    /\ Exit(1)
    /\ UNCHANGED <<files, report_type, file_idx, all_records, records,
                   brand_ratings, brand_counts, average_ratings, stdout>>

\* Line 41 and the assignment of line 118.
ReturnRecords ==
    /\ pc = "read"
    /\ file_idx > Len(files)
    /\ records' = all_records
    /\ pc' = "aggregate"
    /\ UNCHANGED <<files, report_type, file_idx, open_files, all_records,
                   brand_ratings, brand_counts, average_ratings, stdout,
                   stderr, exit_status>>

\* Line 121.  An exception calculate_average_rating does not catch is
\* caught nowhere: the interpreter prints the traceback and exits with 1.
Aggregate ==
    /\ pc = "aggregate"
    /\ LET r == calculate_average_rating(records)
       IN  /\ brand_ratings' = r.brand_ratings
           /\ brand_counts' = r.brand_counts
           /\ average_ratings' = r.result
           /\ IF r.exc # ""
              THEN /\ stderr' = stderr \o r.stderr \o
                                <<[kind |-> "traceback", text |-> <<r.exc>>]>>
                   /\ Exit(1)
              ELSE /\ stderr' = stderr \o r.stderr
                   /\ pc' = "report"
                   /\ UNCHANGED exit_status
    /\ UNCHANGED <<files, report_type, file_idx, open_files, all_records,
                   records, stdout>>

\* Lines 124-128 with generate_report (lines 91-96); main() then ends.
GenerateReport ==
    /\ pc = "report"
    /\ IF report_type # "average-rating"
       THEN /\ stderr' = Append(stderr, [kind |-> "unsupported_report",
                                         text |-> <<report_type>>])
            /\ Exit(1)
            /\ UNCHANGED stdout
       ELSE /\ stdout' = Append(stdout,
                                Tabulate(TableData(average_ratings),
                                         <<"Brand", "Rating">>))
            /\ Exit(0)
            /\ UNCHANGED stderr
    /\ UNCHANGED <<files, report_type, file_idx, open_files, all_records,
                   records, brand_ratings, brand_counts, average_ratings>>

Next ==
    \/ OpenFile
    \/ ReadRows
    \/ CloseFile
    \/ CsvErrorExit
    \/ ReturnRecords
    \/ Aggregate
    \/ GenerateReport

NextAgg ==
    \/ Aggregate
    \/ GenerateReport

Spec == Init /\ [][Next]_vars

SpecAgg == InitAgg /\ [][NextAgg]_vars

(***************************************************************************)
(* Properties.                                                             *)
(***************************************************************************)
Last(s) == s[Len(s)]

\* The kind of the last line written to stderr, "" when there is none.
LastKind(err) == IF err = <<>> THEN "" ELSE Last(err).kind

\* float() accepts the rating of record r.
Parses(r) == r["rating"] # None /\ r["rating"] \in DOMAIN FloatLiterals

\* The records of brand b whose rating float() accepts, in input order.
ParsedOf(recs, b) ==
    LET ok(r) == r["brand"] = b /\ Parses(r)
    IN  SelectSeq(recs, ok)

\* The float sum of the ratings of rs.
RECURSIVE SumRatings(_)
SumRatings(rs) ==
    IF rs = <<>> THEN <<0, 1>>
    ELSE FAdd(SumRatings(SubSeq(rs, 1, Len(rs) - 1)),
              FloatLiterals[Last(rs)["rating"]])

\* The warnings among the lines of stderr, in order.
Warnings(err) ==
    LET w(m) == m.kind = "warning"
    IN  SelectSeq(err, w)

\* The lines of f after its header that are not blank, as they stand.
DataRowsOf(f) ==
    LET row(l) == l # <<>>
    IN  SelectSeq(Tail(f), row)

\* File f is there and the csv reader accepts every line of it.
Loads(f) == f # Missing /\ \A i \in 1..Len(f) : f[i] # CsvErrorLine

\* The number of data rows of the files before the i-th.
RECURSIVE RowsBefore(_, _)
RowsBefore(fs, i) ==
    IF i <= 1 THEN 0
    ELSE RowsBefore(fs, i - 1) + Len(DataRowsOf(fs[i - 1]))

\* Some file of --files is missing or malformed; the first such.
HasBadFile == \E i \in 1..Len(files) : ~Loads(files[i])

FirstBadFile ==
    CHOOSE i \in 1..Len(files) :
        ~Loads(files[i]) /\ \A j \in 1..(i - 1) : Loads(files[j])

\* C1: every (brand, average) pair calculate_average_rating returns has as
\* average the sum of the ratings float() accepted among the records of
\* exactly that brand, divided by their number; a record whose rating is
\* rejected adds to neither.  (A NaN sum is matched with a NaN average.)
C1_AverageIsMeanOfParsed ==
    pc = "report" =>
        \A i \in 1..Len(average_ratings) :
            LET rs == ParsedOf(records, average_ratings[i][1])
            IN  /\ Len(rs) >= 1
                /\ average_ratings[i][2] = FDiv(SumRatings(rs), Len(rs))

\* A brand with one rejected and two accepted ratings has been averaged.
C1_Witness ==
    /\ pc = "report"
    /\ Len(records) = 3
    /\ \A i \in 1..3 : records[i]["brand"] = "Apple"
    /\ records[1]["rating"] = "invalid"
    /\ records[2]["rating"] = "3.0"
    /\ records[3]["rating"] = "4.0"
    /\ average_ratings = <<<<"Apple", <<35, 1>>>>>>

\* C2: the list calculate_average_rating returns is in non-increasing order
\* of average: average[i] >= average[i+1] at all adjacent positions.
C2_SortedDescending ==
    pc = "report" =>
        \A i \in 1..(Len(average_ratings) - 1) :
            FGeq(average_ratings[i][2], average_ratings[i + 1][2])

\* C3: the output of calculate_average_rating holds exactly one entry for
\* each distinct brand string (exact, case-sensitive) that has a record whose
\* rating parsed, no entry for any other brand, and every output brand has a
\* count of at least 1.
C3_OneEntryPerParsedBrand ==
    pc = "report" =>
        LET out == {average_ratings[i][1] : i \in 1..Len(average_ratings)}
        IN  /\ out = {records[i]["brand"] :
                        i \in {j \in 1..Len(records) : Parses(records[j])}}
            /\ Cardinality(out) = Len(average_ratings)
            /\ \A b \in out :
                 /\ DictHas(brand_counts, b)
                 /\ DictGet(brand_counts, b) >= 1
                 /\ DictGet(brand_counts, b) = Len(ParsedOf(records, b))

\* "Apple" and "apple" both have an accepted rating and a third brand has
\* only a rejected one.
C3_Witness ==
    /\ pc = "report"
    /\ Len(records) = 3
    /\ records[1]["brand"] = "Apple" /\ Parses(records[1])
    /\ records[2]["brand"] = "apple" /\ Parses(records[2])
    /\ records[3]["brand"] = "Sony" /\ records[3]["rating"] = "invalid"
    /\ Len(average_ratings) = 2

\* C4: what read_csv_files returns is the concatenation of the data rows of
\* all files: the rows of an earlier path before those of a later one, the
\* rows of a file in their order, none dropped or duplicated.  (A blank
\* line is no data row.)
C4_ConcatenationInOrder ==
    pc \in {"aggregate", "report"} =>
        /\ \A i \in 1..Len(files) : Loads(files[i])
        /\ Len(records) = RowsBefore(files, Len(files) + 1)
        /\ \A i \in 1..Len(files) :
             \A j \in 1..Len(DataRowsOf(files[i])) :
                LET line == DataRowsOf(files[i])[j]
                    rec == records[RowsBefore(files, i) + j]
                IN  /\ DOMAIN rec = Range(Header)
                    /\ \A c \in 1..Len(Header) :
                         rec[Header[c]] =
                            IF c <= Len(line) THEN line[c] ELSE None

\* Two files were read, the first with two data rows around a blank line,
\* the second with one.
C4_Witness ==
    /\ pc = "aggregate"
    /\ Len(files) = 2
    /\ Loads(files[1]) /\ Loads(files[2])
    /\ Len(DataRowsOf(files[1])) = 2
    /\ Len(DataRowsOf(files[2])) = 1
    /\ files[1][2] # files[1][3]
    /\ Len(records) = 3

\* C5: in a run where some file is missing or malformed the process ends
\* with status 1 at the first such file: no later file is opened, no record
\* list is returned, nothing is aggregated (no warning is written, even for
\* rows already read), and nothing is printed to standard output.
C5_FailFastAtFirstBadFile ==
    HasBadFile =>
        /\ file_idx <= FirstBadFile
        /\ open_files \subseteq 1..FirstBadFile
        /\ pc \notin {"aggregate", "report"}
        /\ records = <<>>
        /\ average_ratings = <<>> /\ brand_ratings = <<>>
        /\ Warnings(stderr) = <<>>
        /\ stdout = <<>>
        /\ pc = "exited" => /\ exit_status = <<1>>
                            /\ file_idx = FirstBadFile
                            /\ Len(stderr) = 1
                            /\ Last(stderr).text = <<FirstBadFile>>
        /\ pc # "exited" => ENABLED Next

\* The process ended at a bad second file after a row with a rejected
\* rating was read from the first.
C5_Witness ==
    /\ pc = "exited"
    /\ exit_status = <<1>>
    /\ Len(files) = 2
    /\ Loads(files[1])
    /\ ~Loads(files[2])
    /\ \E i \in 1..Len(all_records) : all_records[i]["rating"] = "invalid"

\* C6: a record whose rating cannot be parsed never aborts
\* calculate_average_rating or the run: one warning is written for each such
\* record, in order, and the function returns.
C6_UnparsableNeverAborts ==
    (pc = "report" \/ (pc = "exited" /\ file_idx > Len(files))) =>
        /\ \A i \in 1..Len(stderr) : stderr[i].kind # "traceback"
        /\ LET bad(r) == ~Parses(r)
               skipped == SelectSeq(records, bad)
           IN  /\ Len(Warnings(stderr)) = Len(skipped)
               /\ \A i \in 1..Len(skipped) :
                    Warnings(stderr)[i].text =
                        <<skipped[i]["rating"], skipped[i]["name"],
                          skipped[i]["brand"]>>

\* C7: in a run where all files load and the report type is not
\* "average-rating", the failure is raised by generate_report only, after
\* aggregation completed; nothing is printed to standard output and the
\* process ends with status 1.
C7_UnsupportedReportFailsLast ==
    ((\A i \in 1..Len(files) : Loads(files[i]))
        /\ report_type # "average-rating") =>
        /\ stdout = <<>>
        /\ pc = "exited" =>
             /\ exit_status = <<1>>
             /\ LastKind(stderr) = "unsupported_report"
             /\ \A i \in 1..(Len(stderr) - 1) : stderr[i].kind = "warning"
             /\ Len(Warnings(stderr)) =
                  Cardinality({i \in 1..Len(records) : ~Parses(records[i])})

\* C8: for "average-rating", generate_report prints exactly one table whose
\* data rows match the (brand, average) pairs one to one and in order, each
\* average as the nearest number with one decimal; an empty sequence gives
\* the header row alone, and no error.
C8_OneRowPerPairInOrder ==
    /\ pc # "exited" => stdout = <<>>
    /\ (pc = "exited" /\ LastKind(stderr) # "traceback") =>
         /\ exit_status = <<0>>
         /\ Len(stdout) = 1
         /\ stdout[1].headers = <<"Brand", "Rating">>
         /\ Len(stdout[1].rows) = Len(average_ratings)
         /\ records = <<>> => stdout[1].rows = <<>>
         /\ \A i \in 1..Len(average_ratings) :
              LET row == stdout[1].rows[i]
                  avg == average_ratings[i][2]
              IN  /\ Len(row) = 2
                  /\ row[1] = average_ratings[i][1]
                  /\ IF IsNaN(avg) THEN row[2] = "nan"
                     ELSE \E t \in 0..50 :
                            /\ row[2] = ToString(t \div 10) \o "." \o
                                        ToString(t % 10)
                            /\ 2 * t * avg[2] - 2 * avg[1] <= avg[2]
                            /\ 2 * avg[1] - 2 * t * avg[2] <= avg[2]

\* An empty record sequence was aggregated and reported.
C8_Witness ==
    /\ pc = "exited"
    /\ records = <<>>
    /\ average_ratings = <<>>
    /\ stdout = <<[headers |-> <<"Brand", "Rating">>, rows |-> <<>>]>>
    /\ exit_status = <<0>>

\* The position of the first record of brand b.
FirstEncountered(b) ==
    CHOOSE i \in 1..Len(records) :
        records[i]["brand"] = b /\ \A j \in 1..(i - 1) : records[j]["brand"] # b

\* The position of the first record of brand b whose rating float() accepts.
FirstParsed(b) ==
    CHOOSE i \in 1..Len(records) :
        /\ records[i]["brand"] = b /\ Parses(records[i])
        /\ \A j \in 1..(i - 1) : ~(records[j]["brand"] = b /\ Parses(records[j]))

C10_AtMostOneFileOpen ==
    /\ Cardinality(open_files) <= 1
    /\ pc \in {"reading", "read_done", "csv_error"} => open_files = {file_idx}
    /\ pc \in {"read", "aggregate", "report", "exited"} => open_files = {}

\* The process exited on a csv.Error in the second file, after the first
\* was read and closed.
C10_Witness ==
    /\ pc = "exited"
    /\ file_idx = 2
    /\ LastKind(stderr) = "csv_error"
    /\ Len(all_records) >= 1
    /\ open_files = {}

====
